---- MODULE Spec2Model ----
(***************************************************************************)
(* A model of ratchet's lazy tensor graph (crates/ratchet-core/src/        *)
(* tensor.rs): tensors are nodes of a DAG with a late-bound storage slot;  *)
(* builder methods add nodes, resolve() schedules, allocates, compiles and *)
(* submits them, to()/deep_clone() create Const copies.                    *)
(***************************************************************************)
EXTENDS Integers, Sequences, FiniteSets, TLC

\* ------------------------------------------------------------------ bounds
\* Largest number of tensor nodes ever constructed.
MaxNodes == 3
\* Number of distinct pooled GPU buffer handles the planner can hand out.
NumPoolBufs == 2
\* Number of threads that call resolve (or get_or_create) concurrently.
NumThreads == 2
\* Number of pipeline layout handles a pipeline descriptor can name.
NumLayouts == 2
\* Largest number of get_or_create calls made on one pipeline pool.
MaxCalls == 3
\* WorkgroupCount::MAX_WGS_PER_DIM, scaled down: the largest workgroup count
\* the device takes in one dimension.
MAX_WGS_PER_DIM == 3
\* Largest element count a dispatch is calculated for.
MaxNumel == 800
\* Largest number of elements of a data slice whose bytes are followed.
MaxLen == 2
\* Largest number of raw CPU buffers ever built.
MaxRaws == 3
\* Number of addresses the allocator hands out.
NumAddrs == 2
\* Largest number of CPUBuffer handles that share one raw buffer.
MaxHandles == 2

VARIABLES
    nodes,        \* Inner per TensorId: [op, attrs, view, srcs, device]; the id is the index
    storage,      \* Inner.storage per TensorId: Empty (None) or a Storage
    last,         \* the last call made and what it returned
    writes,       \* per TensorId, the number of update_storage calls on its slot
    threads,      \* per resolver thread, its position inside resolve
    pool,         \* the compute pipeline pool: its lookup table and its resources
    got,          \* the get_or_create calls that returned: descriptor and handle
    callers,      \* per thread, its position inside get_or_create
    dispatch,     \* an element count and the workgroup count calculated for it
    transfer,     \* a data slice and the buffer holding its bytes, device by device
    heap,         \* the raw CPU buffers, their handles and the allocator's memory
    opcall,       \* an IndexWrite operation and what its methods returned
    file          \* a Whisper header, the bytes written for it and what was loaded back

\* The tensor graph.
graph == <<nodes, storage, last, writes, threads>>

\* The pipeline pool.
pipelines == <<pool, got, callers>>

\* What the tensor graph's actions leave alone.
outside == <<pipelines, dispatch, transfer, heap, opcall, file>>

\* What the pipeline pool's actions leave alone.
outsidePool == <<graph, dispatch, transfer, heap, opcall, file>>

\* What the calculation of a dispatch leaves alone.
outsideDispatch == <<graph, pipelines, transfer, heap, opcall, file>>

\* What the transfer of a buffer leaves alone.
outsideTransfer == <<graph, pipelines, dispatch, heap, opcall, file>>

\* What the CPU buffers' operations leave alone.
outsideHeap == <<graph, pipelines, dispatch, transfer, opcall, file>>

\* What the methods of an operation leave alone.
outsideOp == <<graph, pipelines, dispatch, transfer, heap, file>>

\* What the writing and loading of a model header leave alone.
outsideHeader == <<graph, pipelines, dispatch, transfer, heap, opcall>>

vars == <<graph, outside>>

\* ------------------------------------------------------------- data model
Devices == {"CPU", "GPU"}

is_gpu(d) == d = "GPU"

is_cpu(d) == d = "CPU"

PoolBufs == 1..NumPoolBufs

\* The shapes tensors are built with: rank 1, one of them with a zero dimension.
Shapes == {<<0>>, <<2>>}

\* Shape::numel: the product of the dimensions.
RECURSIVE numel(_)
numel(shape) == IF shape = <<>> THEN 1 ELSE Head(shape) * numel(Tail(shape))

\* The data slices handed to from_data while building a graph: one per shape,
\* which it fills.
Datas == {[i \in 1..numel(shape) |-> 1] : shape \in Shapes}

\* DType::size_of, in bytes.
size_of(dt) == IF dt = "F16" THEN 2 ELSE 4

\* StorageView: the shape and the dtype (the strides derive from the shape).
StorageView(shape, dt) == [shape |-> shape, dt |-> dt]

\* Option<Storage>::None
Empty == [kind |-> "None", buf |-> <<"none", 0>>, n_bytes |-> 0]

\* Storage::CPU(CPUBuffer) / Storage::GPU(GPUBuffer); buf names the allocation,
\* n_bytes is the buffer's byte length.
StorageOf(kind, buf, n_bytes) == [kind |-> kind, buf |-> buf, n_bytes |-> n_bytes]

Ids == 1..Len(nodes)

\* Tensor::new: a node with a fresh TensorId (the next index). attrs are the
\* fields of the operation besides its sources (IndexWrite: write_start).
TensorNew(op, view, srcs, device) ==
    [op |-> op, attrs |-> <<>>, view |-> view, srcs |-> srcs, device |-> device]

\* Tensor::num_bytes
num_bytes(t) == numel(nodes[t].view.shape) * size_of(nodes[t].view.dt)

\* Tensor::resolved
resolved(t) == storage[t] # Empty

\* A faulty variant of TensorEq: structural equality (op, sources, device) instead of ids.
TensorEqStructural(a, b) == nodes[a] = nodes[b]

\* impl PartialEq for Tensor: equality of ids.
TensorEq(a, b) == a = b

\* Vec::contains over Tensor's PartialEq.
Contains(seq, t) == \E i \in 1..Len(seq) : TensorEq(seq[i], t)

RECURSIVE Reverse(_)
Reverse(s) == IF s = <<>> THEN <<>> ELSE Append(Reverse(Tail(s)), Head(s))

\* The while-let loop of execution_order: pop the stack, skip visited nodes,
\* push both sources of a Binary or Matmul, reach unimplemented!() otherwise.
RECURSIVE Walk(_, _)
Walk(stack, visited) ==
    IF stack = <<>> THEN [panic |-> FALSE, visited |-> visited]
    ELSE LET tensor == stack[Len(stack)]
             rest == SubSeq(stack, 1, Len(stack) - 1)
         IN  IF Contains(visited, tensor) THEN Walk(rest, visited)
             ELSE IF nodes[tensor].op = "Const"
                  THEN Walk(rest, Append(visited, tensor))
             ELSE IF nodes[tensor].op \in {"Binary", "Matmul"}
                  THEN Walk(rest \o <<nodes[tensor].srcs[1], nodes[tensor].srcs[2]>>,
                            Append(visited, tensor))
             ELSE [panic |-> TRUE, visited |-> visited]

\* Tensor::execution_order: the visited list, reversed.
execution_order(root) == Reverse(Walk(<<root>>, <<>>).visited)

\* execution_order reaches unimplemented!() for an op other than Const/Binary/Matmul.
OrderPanics(root) == Walk(<<root>>, <<>>).panic

\* The nodes reachable from root through source edges (root included).
RECURSIVE ReachFrom(_)
ReachFrom(frontier) ==
    LET more == frontier \cup
                UNION {{nodes[t].srcs[k] : k \in 1..Len(nodes[t].srcs)} : t \in frontier}
    IN  IF more = frontier THEN frontier ELSE ReachFrom(more)

Reachable(root) == ReachFrom({root})

\* ------------------------------------------------------------ call records
Call(op, arg, ret, result) ==
    [op |-> op, arg |-> arg, ret |-> ret, result |-> result,
     assigned |-> {}, compiled |-> <<>>, submitted |-> 0, copied |-> FALSE]

\* The record of a resolve call: the nodes it gave storage, the nodes whose
\* CompiledOp it recorded (in order) and the batches it submitted.
ResolveCall(root, result, assigned, compiled, submitted) ==
    [Call("resolve", <<root>>, 0, result) EXCEPT
        !.assigned = assigned, !.compiled = compiled, !.submitted = submitted]

Panicked == last.result = "Panic"

Threads == 1..NumThreads

Idle ==
    [pc |-> "idle", root |-> 0, order |-> <<>>, i |-> 0, allocations |-> <<>>,
     compiled |-> <<>>, events |-> <<>>, result |-> "", errId |-> 0]

AllIdle == \A th \in Threads : threads[th].pc = "idle"

\* No tensor has been built.
GraphInit ==
    /\ nodes = <<>>
    /\ storage = <<>>
    /\ last = Call("init", <<>>, 0, "Ok")
    /\ writes = <<>>
    /\ threads = [th \in Threads |-> Idle]

\* ---------------------------------------------------------------- builders
\* The bytes of one F32 element, which is modelled by its bit pattern, as
\* bytemuck::cast_slice lays them out: least significant byte first.
le_bytes(e) == <<e % 256, (e \div 256) % 256, (e \div 65536) % 256, (e \div 16777216) % 256>>

\* bytemuck::cast_slice::<f32, u8>
RECURSIVE cast_slice(_)
cast_slice(data) ==
    IF data = <<>> THEN <<>> ELSE le_bytes(Head(data)) \o cast_slice(Tail(data))

\* A buffer that was not built: the call panicked.
NoBuffer == [panic |-> TRUE, bytes |-> <<>>]

\* CPUBuffer::from_bytes: RawCPUBuffer::uninitialized(bytes.len(), alignment),
\* then as_bytes_mut().copy_from_slice(bytes). For 0 bytes the buffer holds a
\* null pointer and as_bytes_mut() is slice::from_raw_parts_mut(null, 0):
\* undefined behaviour, which yields an empty slice (nullSliceOk) or, in a
\* build that checks the precondition, aborts.
from_bytes(bytes, nullSliceOk) ==
    IF Len(bytes) = 0 /\ ~nullSliceOk THEN NoBuffer
    ELSE [panic |-> FALSE, bytes |-> bytes]

\* A faulty variant of from_slice: no assert that the data fills the shape.
from_sliceUnchecked(data, shape, nullSliceOk) == from_bytes(cast_slice(data), nullSliceOk)

\* CPUBuffer::from_slice: assert_eq!(data.len(), shape.numel()), then the
\* buffer of the data's bytes.
from_slice(data, shape, nullSliceOk) ==
    IF Len(data) # numel(shape) THEN NoBuffer
    ELSE from_bytes(cast_slice(data), nullSliceOk)

\* A faulty variant of from_data: the data is never copied to the device, so the
\* node holds CPU storage whatever its device.
from_dataKeepsHost(data, shape, device, nullSliceOk) ==
    /\ ~Panicked
    /\ Len(nodes) < MaxNodes
    /\ LET id == Len(nodes) + 1
           buffer == from_slice(data, shape, nullSliceOk)
       IN  IF buffer.panic
           THEN /\ last' = Call("from_data", <<>>, 0, "Panic")
                /\ UNCHANGED <<nodes, storage, writes>>
           ELSE /\ nodes' = Append(nodes,
                                TensorNew("Const", StorageView(shape, "F32"), <<>>, device))
                /\ storage' = Append(storage, StorageOf("CPU", <<"own", id>>, Len(buffer.bytes)))
                /\ writes' = Append(writes, 0)
                /\ last' = Call("from_data", <<>>, id, "Ok")
    /\ UNCHANGED <<threads, outside>>

\* Tensor::from_data: a Const node whose storage is populated at construction
\* (on the CPU or, for a GPU device, copied to it).
from_data(data, shape, device, nullSliceOk) ==
    /\ ~Panicked
    /\ Len(nodes) < MaxNodes
    /\ LET id == Len(nodes) + 1
           kind == IF is_gpu(device) THEN "GPU" ELSE "CPU"
           buffer == from_slice(data, shape, nullSliceOk)
           n_bytes == Len(buffer.bytes)
       IN  IF buffer.panic
           THEN /\ last' = Call("from_data", <<>>, 0, "Panic")
                /\ UNCHANGED <<nodes, storage, writes>>
           ELSE /\ nodes' = Append(nodes,
                                TensorNew("Const", StorageView(shape, "F32"), <<>>, device))
                /\ storage' = Append(storage, StorageOf(kind, <<"own", id>>, n_bytes))
                /\ writes' = Append(writes, 0)
                /\ last' = Call("from_data", <<>>, id, "Ok")
    /\ UNCHANGED <<threads, outside>>

\* check_invariants over the operands (check_shapes, check_dtypes): operands
\* of unequal views are refused, ok is the outcome for operands of equal views.
check_invariants(srcs, ok) ==
    ok /\ \A k \in 1..Len(srcs) : nodes[srcs[k]].view = nodes[srcs[1]].view

\* infer_output: for operands of equal views, that view.
infer_output(srcs) == nodes[srcs[1]].view

\* A faulty variant of Lazy2: an eager builder, which runs the operation at once and
\* hands back a node that already holds a pooled buffer.
Lazy2Eager(name, op, a, b, invariantsOk) ==
    /\ ~Panicked
    /\ Len(nodes) < MaxNodes
    /\ IF check_invariants(<<a, b>>, invariantsOk)
       THEN /\ nodes' = Append(nodes,
                            TensorNew(op, infer_output(<<a, b>>), <<a, b>>, nodes[a].device))
            /\ storage' = Append(storage, StorageOf("GPU", <<"pool", 1>>, num_bytes(a)))
            /\ writes' = Append(writes, 0)
            /\ last' = [Call(name, <<a, b>>, Len(nodes) + 1, "Ok") EXCEPT !.submitted = 1]
       ELSE /\ UNCHANGED <<nodes, storage, writes>>
            /\ last' = Call(name, <<>>, 0, "Err")
    /\ UNCHANGED <<threads, outside>>

\* Tensor::lazy via a two-operand builder; invariantsOk is the outcome of
\* check_invariants / infer_output.
Lazy2(name, op, a, b, invariantsOk) ==
    /\ ~Panicked
    /\ Len(nodes) < MaxNodes
    /\ IF check_invariants(<<a, b>>, invariantsOk)
       THEN /\ nodes' = Append(nodes,
                            TensorNew(op, infer_output(<<a, b>>), <<a, b>>, nodes[a].device))
            /\ storage' = Append(storage, Empty)
            /\ writes' = Append(writes, 0)
            /\ last' = Call(name, <<a, b>>, Len(nodes) + 1, "Ok")
       ELSE /\ UNCHANGED <<nodes, storage, writes>>
            /\ last' = Call(name, <<>>, 0, "Err")
    /\ UNCHANGED <<threads, outside>>

\* Tensor::add
add(a, b, invariantsOk) == Lazy2("add", "Binary", a, b, invariantsOk)

\* Tensor::matmul
matmul(a, b, invariantsOk) == Lazy2("matmul", "Matmul", a, b, invariantsOk)

\* Tensor::gemm, as the builder surface describes it: check the invariants,
\* then a lazy node over the input, the weight and the optional bias (0: None).
gemm(input, w, b, invariantsOk) ==
    /\ ~Panicked
    /\ Len(nodes) < MaxNodes
    /\ LET srcs == IF b = 0 THEN <<input, w>> ELSE <<input, w, b>>
       IN  IF check_invariants(srcs, invariantsOk)
           THEN /\ nodes' = Append(nodes,
                                TensorNew("Gemm", infer_output(srcs), srcs,
                                          nodes[input].device))
                /\ storage' = Append(storage, Empty)
                /\ writes' = Append(writes, 0)
                /\ last' = Call("schedule", srcs, Len(nodes) + 1, "Ok")
           ELSE /\ UNCHANGED <<nodes, storage, writes>>
                /\ last' = Call("schedule", <<>>, 0, "Err")
    /\ UNCHANGED <<threads, outside>>

\* Linear::schedule: one gemm over the input, self.w and self.b.
Linear_schedule(input, w, b, invariantsOk) == gemm(input, w, b, invariantsOk)

\* The starts an index_write is asked to write at.
WriteStarts == {<<0>>, <<1>>}

\* IndexWrite::compute_view: the view of dst.
compute_view(dst) == nodes[dst].view

\* Tensor::index_write, as the builder surface describes it, over IndexWrite's
\* guards: check_shapes and check_dtypes are empty and refuse nothing, so
\* every call returns a lazy node with the view of dst.
index_write(dst, src, write_start) ==
    /\ ~Panicked
    /\ Len(nodes) < MaxNodes
    /\ nodes' = Append(nodes,
                       [TensorNew("IndexWrite", compute_view(dst), <<dst, src>>,
                                  nodes[dst].device)
                           EXCEPT !.attrs = write_start])
    /\ storage' = Append(storage, Empty)
    /\ writes' = Append(writes, 0)
    /\ last' = Call("index_write", <<dst, src>>, Len(nodes) + 1, "Ok")
    /\ UNCHANGED <<threads, outside>>

\* ----------------------------------------------------------------- resolve
\* Tensor::compile: None for Const, the op's compile(..).ok() otherwise;
\* compileFails are the nodes whose compile returns Err.
compile(t, compileFails) ==
    IF nodes[t].op = "Const" \/ t \in compileFails THEN <<>> ELSE <<t>>

\* A faulty variant of ResolveLoop: a node the planner has no buffer for is skipped
\* instead of ending the call with NoStorage.
RECURSIVE ResolveLoopSkipsMissing(_, _, _, _, _, _)
ResolveLoopSkipsMissing(order, i, st, compiled, allocations, compileFails) ==
    IF i > Len(order)
    THEN [result |-> "Ok", st |-> st, compiled |-> compiled, errId |-> 0]
    ELSE LET t == order[i]
         IN  IF st[t] = Empty /\ t \in DOMAIN allocations /\ ~is_gpu(nodes[t].device)
             THEN [result |-> "Panic", st |-> st, compiled |-> compiled, errId |-> 0]
             ELSE ResolveLoopSkipsMissing(order, i + 1,
                     IF st[t] = Empty /\ t \in DOMAIN allocations
                     THEN [st EXCEPT ![t] = StorageOf("GPU", <<"pool", allocations[t]>>,
                                                      num_bytes(t))]
                     ELSE st,
                     compiled \o compile(t, compileFails),
                     allocations, compileFails)

\* A faulty variant of ResolveLoop: the planner's buffer is stored whenever there is one,
\* without asking whether the node is resolved already.
RECURSIVE ResolveLoopOverwrites(_, _, _, _, _, _)
ResolveLoopOverwrites(order, i, st, compiled, allocations, compileFails) ==
    IF i > Len(order)
    THEN [result |-> "Ok", st |-> st, compiled |-> compiled, errId |-> 0]
    ELSE LET t == order[i]
         IN  IF st[t] = Empty /\ t \notin DOMAIN allocations
             THEN [result |-> "NoStorage", st |-> st, compiled |-> compiled, errId |-> t]
             ELSE IF t \in DOMAIN allocations /\ ~is_gpu(nodes[t].device)
             THEN [result |-> "Panic", st |-> st, compiled |-> compiled, errId |-> 0]
             ELSE ResolveLoopOverwrites(order, i + 1,
                     IF t \in DOMAIN allocations
                     THEN [st EXCEPT ![t] = StorageOf("GPU", <<"pool", allocations[t]>>,
                                                      num_bytes(t))]
                     ELSE st,
                     compiled \o compile(t, compileFails),
                     allocations, compileFails)

\* A faulty variant of ResolveLoop: NoStorage carries the id of the root instead of the
\* id of the node that has no buffer.
RECURSIVE ResolveLoopNamesRoot(_, _, _, _, _, _)
ResolveLoopNamesRoot(order, i, st, compiled, allocations, compileFails) ==
    IF i > Len(order)
    THEN [result |-> "Ok", st |-> st, compiled |-> compiled, errId |-> 0]
    ELSE LET t == order[i]
         IN  IF st[t] = Empty /\ t \notin DOMAIN allocations
             THEN [result |-> "NoStorage", st |-> st, compiled |-> compiled,
                   errId |-> order[Len(order)]]
             ELSE IF st[t] = Empty /\ ~is_gpu(nodes[t].device)
             THEN [result |-> "Panic", st |-> st, compiled |-> compiled, errId |-> 0]
             ELSE ResolveLoopNamesRoot(order, i + 1,
                     IF st[t] = Empty
                     THEN [st EXCEPT ![t] = StorageOf("GPU", <<"pool", allocations[t]>>,
                                                      num_bytes(t))]
                     ELSE st,
                     compiled \o compile(t, compileFails),
                     allocations, compileFails)

\* The for loop of resolve over the execution order, from position i: an
\* unresolved node takes the planner's buffer (NoStorage without one), then
\* every node is compiled.
RECURSIVE ResolveLoop(_, _, _, _, _, _)
ResolveLoop(order, i, st, compiled, allocations, compileFails) ==
    IF i > Len(order)
    THEN [result |-> "Ok", st |-> st, compiled |-> compiled, errId |-> 0]
    ELSE LET t == order[i]
         IN  IF st[t] = Empty /\ t \notin DOMAIN allocations
             THEN [result |-> "NoStorage", st |-> st, compiled |-> compiled, errId |-> t]
             ELSE IF st[t] = Empty /\ ~is_gpu(nodes[t].device)
             THEN [result |-> "Panic", st |-> st, compiled |-> compiled, errId |-> 0]
             ELSE ResolveLoop(order, i + 1,
                     IF st[t] = Empty
                     THEN [st EXCEPT ![t] = StorageOf("GPU", <<"pool", allocations[t]>>,
                                                      num_bytes(t))]
                     ELSE st,
                     compiled \o compile(t, compileFails),
                     allocations, compileFails)

Assigned(st) == {t \in Ids : storage[t] = Empty /\ st[t] # Empty}

\* The non-Const nodes of an execution order: those the planner plans.
Planned(order) == {order[i] : i \in {j \in 1..Len(order) : nodes[order[j]].op # "Const"}}

\* What allocate_cfg may return on success: pooled buffers for planned nodes.
Plans(order) == UNION {[dom -> PoolBufs] : dom \in SUBSET Planned(order)}

\* Tensor::resolve. allocations is what allocate_cfg returned (a map from the
\* ids of planned, non-Const nodes to pooled buffers, which may lack entries),
\* dispatchOk whether dispatch_operations did.
resolve(root) ==
    /\ ~Panicked
    /\ UNCHANGED <<nodes, threads, outside>>
    /\ \/ /\ ~is_gpu(nodes[root].device)                    \* try_gpu()? fails
          /\ last' = ResolveCall(root, "DeviceError", {}, <<>>, 0)
          /\ UNCHANGED <<storage, writes>>
       \/ /\ is_gpu(nodes[root].device)
          /\ OrderPanics(root)                              \* unimplemented!()
          /\ last' = ResolveCall(root, "Panic", {}, <<>>, 0)
          /\ UNCHANGED <<storage, writes>>
       \/ /\ is_gpu(nodes[root].device)
          /\ ~OrderPanics(root)                             \* allocate_cfg(..)? fails
          /\ last' = ResolveCall(root, "DeviceError", {}, <<>>, 0)
          /\ UNCHANGED <<storage, writes>>
       \/ /\ is_gpu(nodes[root].device)
          /\ ~OrderPanics(root)
          /\ LET order == execution_order(root)
             IN  \E allocations \in Plans(order) :
                 \E compileFails \in SUBSET Planned(order) :
                 \E dispatchOk \in BOOLEAN :
                 LET r == ResolveLoop(order, 1, storage, <<>>, allocations, compileFails)
                 IN  /\ storage' = r.st
                     /\ writes' = [t \in Ids |->
                                     IF r.st[t] # storage[t] THEN writes[t] + 1 ELSE writes[t]]
                     /\ IF r.result # "Ok"
                        THEN last' = [ResolveCall(root, r.result, Assigned(r.st), r.compiled, 0)
                                         EXCEPT !.ret = r.errId]
                        ELSE IF ~dispatchOk                 \* dispatch_operations(..).unwrap()
                        THEN last' = ResolveCall(root, "Panic", Assigned(r.st), r.compiled, 0)
                        ELSE last' = ResolveCall(root, "Ok", Assigned(r.st), r.compiled, 1)

\* --------------------------------------------------------------- transfers
\* A faulty variant of NewConst: the Const node is built lazily, with an empty slot.
NewConstLazy(name, t, device, kind) ==
    /\ Len(nodes) < MaxNodes
    /\ nodes' = Append(nodes, TensorNew("Const", nodes[t].view, <<>>, device))
    /\ storage' = Append(storage, Empty)
    /\ writes' = Append(writes, 0)
    /\ last' = [Call(name, <<t, device>>, Len(nodes) + 1, "Ok") EXCEPT !.copied = TRUE]

\* A faulty variant of NewConst: the copy is labelled with the device of its source
\* instead of the device it was copied to.
NewConstOnSourceDevice(name, t, device, kind) ==
    /\ Len(nodes) < MaxNodes
    /\ nodes' = Append(nodes, TensorNew("Const", nodes[t].view, <<>>, nodes[t].device))
    /\ storage' = Append(storage,
                         StorageOf(kind, <<"own", Len(nodes) + 1>>, storage[t].n_bytes))
    /\ writes' = Append(writes, 0)
    /\ last' = [Call(name, <<t, device>>, Len(nodes) + 1, "Ok") EXCEPT !.copied = TRUE]

\* A new Const node with populated storage (Tensor::new(LazyOp::Const, ..)).
NewConst(name, t, device, kind) ==
    /\ Len(nodes) < MaxNodes
    /\ nodes' = Append(nodes, TensorNew("Const", nodes[t].view, <<>>, device))
    /\ storage' = Append(storage,
                         StorageOf(kind, <<"own", Len(nodes) + 1>>, storage[t].n_bytes))
    /\ writes' = Append(writes, 0)
    /\ last' = [Call(name, <<t, device>>, Len(nodes) + 1, "Ok") EXCEPT !.copied = TRUE]

Same(name, t, device) ==
    /\ last' = Call(name, <<t, device>>, t, "Ok")
    /\ UNCHANGED <<nodes, storage, writes>>

Failed(name, t, device, error) ==
    /\ last' = Call(name, <<t, device>>, 0, error)
    /\ UNCHANGED <<nodes, storage, writes>>

\* Tensor::to_cpu
to_cpu(t, transferOk) ==
    IF is_cpu(nodes[t].device) \/ ~resolved(t) THEN Same("to", t, "CPU")
    ELSE IF storage[t].kind # "GPU" THEN Failed("to", t, "CPU", "DeviceError")
    ELSE IF ~transferOk THEN Failed("to", t, "CPU", "DeviceError")
    ELSE NewConst("to", t, "CPU", "CPU")

\* A faulty variant of to_gpu: no early return for an unresolved tensor, whose missing
\* storage then ends the call with TransferError.
to_gpuNoResolvedCheck(t, dst_device) ==
    IF is_gpu(nodes[t].device) THEN Same("to", t, dst_device)
    ELSE IF ~resolved(t) THEN Failed("to", t, dst_device, "TransferError")
    ELSE IF storage[t].kind # "CPU" THEN Failed("to", t, dst_device, "DeviceError")
    ELSE NewConst("to", t, dst_device, "GPU")

\* Tensor::to_gpu. CPUBuffer::to_device reads as_bytes() of the host buffer,
\* which for a buffer of 0 bytes is slice::from_raw_parts over a null pointer:
\* an empty slice or the abort of a build that checks the precondition.
to_gpu(t, dst_device) ==
    IF is_gpu(nodes[t].device) \/ ~resolved(t) THEN Same("to", t, dst_device)
    ELSE IF storage[t].kind # "CPU" THEN Failed("to", t, dst_device, "DeviceError")
    ELSE \/ NewConst("to", t, dst_device, "GPU")
         \/ storage[t].n_bytes = 0 /\ Failed("to", t, dst_device, "Panic")

\* Tensor::to
to(t, device, transferOk) ==
    /\ ~Panicked
    /\ IF is_gpu(nodes[t].device) /\ is_cpu(device) THEN to_cpu(t, transferOk)
       ELSE IF is_cpu(nodes[t].device) /\ is_gpu(device) THEN to_gpu(t, device)
       ELSE Same("to", t, device)
    /\ UNCHANGED <<threads, outside>>

\* Tensor::deep_clone: unwraps the storage and its deep clone.
deep_clone(t, cloneOk) ==
    /\ ~Panicked
    /\ IF ~resolved(t) \/ ~cloneOk
       THEN /\ last' = Call("deep_clone", <<>>, 0, "Panic")
            /\ UNCHANGED <<nodes, storage, writes>>
       ELSE /\ Len(nodes) < MaxNodes
            /\ nodes' = Append(nodes,
                            TensorNew("Const", nodes[t].view, <<>>, nodes[t].device))
            /\ storage' = Append(storage,
                                 StorageOf(storage[t].kind, <<"own", Len(nodes) + 1>>,
                                           storage[t].n_bytes))
            /\ writes' = Append(writes, 0)
            /\ last' = [Call("deep_clone", <<t>>, Len(nodes) + 1, "Ok") EXCEPT !.copied = TRUE]
    /\ UNCHANGED <<threads, outside>>

\* ----------------------------------------------------------- pipeline pool
\* KernelElement
KernelElements == {"Scalar", "Vec2", "Vec4"}

\* Keys of the kernels the operations of this model compile to.
KernelKeys == {"add", "index_write"}

\* PipelineLayoutHandle
PipelineLayouts == 1..NumLayouts

\* ComputePipelineDescriptor { pipeline_layout, kernel_key, elem }
Descs == [pipeline_layout : PipelineLayouts, kernel_key : KernelKeys, elem : KernelElements]

\* What the process environment holds for RATCHET_CHECKED: nothing, a value
\* that is valid Unicode (the empty string included), or a value that is not.
EnvValues == {"unset", "unicode", "not unicode"}

\* std::env::var: the value of a variable, which must be set and valid Unicode.
env_var(value) ==
    CASE value = "unset" -> "Err(NotPresent)"
      [] value = "unicode" -> "Ok"
      [] value = "not unicode" -> "Err(NotUnicode)"

\* Result::is_ok
is_ok(result) == result = "Ok"

\* A pool over an empty lookup table; layouts are the handles the pipeline
\* layout pool holds, env what the environment holds for RATCHET_CHECKED.
NewPool(layouts, env) ==
    [lookup |-> <<>>, resources |-> <<>>, layouts |-> layouts, env |-> env,
     panicked |-> FALSE]

\* HashMap::insert on the lookup table: the entry of desc becomes handle.
Insert(lookup, desc, handle) ==
    [d \in DOMAIN lookup \cup {desc} |-> IF d = desc THEN handle ELSE lookup[d]]

\* The closure get_or_create hands to the pool: a shader module, compiled
\* checked if std::env::var("RATCHET_CHECKED").is_ok(), and a compute pipeline
\* over the descriptor's pipeline layout.
factory(desc) == [desc |-> desc, checked |-> is_ok(env_var(pool.env))]

\* pipeline_layouts.get(desc.pipeline_layout).unwrap() in the closure.
FactoryPanics(desc) == desc.pipeline_layout \notin pool.layouts

\* The record of a get_or_create call that returned.
Got(desc, handle, created) == [desc |-> desc, handle |-> handle, created |-> created]

CallerIdle == [pc |-> "idle", desc |-> <<>>, resource |-> <<>>]

\* The pool of a device on which RATCHET_CHECKED and the pipeline layouts are
\* any, before the first call.
PoolInit ==
    /\ \E layouts \in SUBSET PipelineLayouts, env \in EnvValues :
          pool = NewPool(layouts, env)
    /\ got = <<>>
    /\ callers = [th \in Threads |-> CallerIdle]

\* The pool while the specification at hand makes no call on it.
PoolIdle ==
    /\ pool = NewPool(PipelineLayouts, "unset")
    /\ got = <<>>
    /\ callers = [th \in Threads |-> CallerIdle]

\* A faulty variant of get_or_create: the closure runs on every call, and its
\* pipeline replaces the entry of the descriptor.
get_or_createNoLookup(desc) ==
    /\ ~pool.panicked
    /\ Len(got) < MaxCalls
    /\ IF FactoryPanics(desc)
       THEN /\ pool' = [pool EXCEPT !.panicked = TRUE]
            /\ UNCHANGED got
       ELSE LET handle == Len(pool.resources) + 1
            IN  /\ pool' = [pool EXCEPT !.resources = Append(@, factory(desc)),
                                        !.lookup = Insert(@, desc, handle)]
                /\ got' = Append(got, Got(desc, handle, TRUE))
    /\ UNCHANGED <<callers, outsidePool>>

\* ComputePipelinePool::get_or_create, called by one thread at a time: the
\* handle the lookup table holds for the descriptor, or else the handle of
\* the pipeline the closure builds, which the pool stores.
get_or_create(desc) ==
    /\ ~pool.panicked
    /\ Len(got) < MaxCalls
    /\ IF desc \in DOMAIN pool.lookup
       THEN /\ got' = Append(got, Got(desc, pool.lookup[desc], FALSE))
            /\ UNCHANGED pool
       ELSE IF FactoryPanics(desc)
       THEN /\ pool' = [pool EXCEPT !.panicked = TRUE]
            /\ UNCHANGED got
       ELSE LET handle == Len(pool.resources) + 1
            IN  /\ pool' = [pool EXCEPT !.resources = Append(@, factory(desc)),
                                        !.lookup = Insert(@, desc, handle)]
                /\ got' = Append(got, Got(desc, handle, TRUE))
    /\ UNCHANGED <<callers, outsidePool>>

\* std::env::set_var / remove_var: the process changes what the environment
\* holds for RATCHET_CHECKED.
set_var(value) ==
    /\ ~pool.panicked
    /\ value # pool.env
    /\ pool' = [pool EXCEPT !.env = value]
    /\ UNCHANGED <<got, callers, outsidePool>>

\* The calls that have begun: those that returned and those under way.
Begun == Len(got) + Cardinality({th \in Threads : callers[th].pc # "idle"})

\* get_or_create by one of several threads, up to the end of the lookup
\* under the read lock: a hit returns the handle.
Lookup(th, desc) ==
    /\ ~pool.panicked
    /\ callers[th].pc = "idle"
    /\ Begun < MaxCalls
    /\ IF desc \in DOMAIN pool.lookup
       THEN /\ got' = Append(got, Got(desc, pool.lookup[desc], FALSE))
            /\ UNCHANGED callers
       ELSE /\ callers' = [callers EXCEPT ![th] = [CallerIdle EXCEPT !.pc = "create",
                                                                     !.desc = desc]]
            /\ UNCHANGED got
    /\ UNCHANGED <<pool, outsidePool>>

\* After a miss, no lock held: the closure builds the pipeline.
Create(th) ==
    /\ ~pool.panicked
    /\ callers[th].pc = "create"
    /\ IF FactoryPanics(callers[th].desc)
       THEN /\ pool' = [pool EXCEPT !.panicked = TRUE]
            /\ UNCHANGED callers
       ELSE /\ callers' = [callers EXCEPT ![th].pc = "insert",
                                          ![th].resource = factory(callers[th].desc)]
            /\ UNCHANGED pool
    /\ UNCHANGED <<got, outsidePool>>

\* Under the write lock: the pipeline is stored and its handle entered in the
\* lookup table, then returned.
InsertNew(th) ==
    /\ ~pool.panicked
    /\ callers[th].pc = "insert"
    /\ LET handle == Len(pool.resources) + 1
       IN  /\ pool' = [pool EXCEPT !.resources = Append(@, callers[th].resource),
                                   !.lookup = Insert(@, callers[th].desc, handle)]
           /\ got' = Append(got, Got(callers[th].desc, handle, TRUE))
    /\ callers' = [callers EXCEPT ![th] = CallerIdle]
    /\ UNCHANGED outsidePool

\* ---------------------------------------------------------------- dispatch
\* WorkgroupCount::div_ceil
div_ceil(a, b) == (a + b - 1) \div b

\* A faulty variant of calculate_dispatch: the workgroups all go to the first
\* dimension, however many they are.
calculate_dispatchNoWrap(n) == <<div_ceil(n, 64), 1, 1>>

\* IndexWrite::calculate_dispatch for a source of n elements: one workgroup
\* per 64 elements, wrapped into the second dimension beyond MAX_WGS_PER_DIM.
calculate_dispatch(n) ==
    LET x_groups == div_ceil(n, 64)
    IN  IF x_groups > MAX_WGS_PER_DIM
        THEN <<MAX_WGS_PER_DIM, div_ceil(x_groups, MAX_WGS_PER_DIM), 1>>
        ELSE <<x_groups, 1, 1>>

\* No dispatch is being calculated.
DispatchIdle == dispatch = [numel |-> 0, wgc |-> <<>>]

\* An IndexWrite whose source has any number of elements up to MaxNumel.
DispatchInit == \E n \in 0..MaxNumel : dispatch = [numel |-> n, wgc |-> <<>>]

\* The compiler asks the operation for its workgroup count.
CalculateDispatch ==
    /\ dispatch.wgc = <<>>
    /\ dispatch' = [dispatch EXCEPT !.wgc = calculate_dispatch(dispatch.numel)]
    /\ UNCHANGED outsideDispatch

\* ---------------------------------------------------------- buffer bytes
\* The F32 elements of a data slice, by bit pattern: 0.0, a denormal whose two
\* low bytes differ, and 1.0.
Elems == {0, 258, 1065353216}

\* The data slices whose bytes are followed: every one of at most MaxLen elements.
Slices == UNION {[1..n -> Elems] : n \in 0..MaxLen}

\* The shapes they are handed over with.
SliceShapes == {<<n>> : n \in 0..MaxLen} \cup {<<1, MaxLen>>}

\* GPUBuffer::from_bytes: the upload of the bytes to a buffer of the device.
GPUBuffer_from_bytes(bytes) == [panic |-> FALSE, bytes |-> bytes]

\* CPUBuffer::to_device: inner().as_bytes(), which for a buffer of 0 bytes is
\* slice::from_raw_parts(null, 0), then the upload.
to_device(bytes, nullSliceOk) ==
    IF Len(bytes) = 0 /\ ~nullSliceOk THEN NoBuffer
    ELSE GPUBuffer_from_bytes(bytes)

\* A caller holds a data slice and a shape.
Held(data, shape) ==
    transfer = [data |-> data, shape |-> shape, at |-> "caller", bytes |-> <<>>,
                result |-> "Ok"]

TransferIdle == Held(<<>>, <<0>>)

TransferInit == \E data \in Slices, shape \in SliceShapes : Held(data, shape)

\* One call of the chain has returned buffer, now at a device.
Moved(buffer, at) ==
    transfer' = IF buffer.panic
                THEN [transfer EXCEPT !.result = "Panic"]
                ELSE [transfer EXCEPT !.at = at, !.bytes = buffer.bytes]

\* Tensor::from_data(data, shape, Device::CPU): Storage::from_slice hands the
\* slice to CPUBuffer::from_slice.
FromSlice ==
    /\ transfer.at = "caller" /\ transfer.result = "Ok"
    /\ \E nullSliceOk \in BOOLEAN :
          Moved(from_slice(transfer.data, transfer.shape, nullSliceOk), "CPU")
    /\ UNCHANGED outsideTransfer

\* Tensor::to(gpu) of the CPU tensor: to_gpu calls cpu_buf.to_device.
ToDevice ==
    /\ transfer.at = "CPU" /\ transfer.result = "Ok"
    /\ \E nullSliceOk \in BOOLEAN :
          Moved(to_device(transfer.bytes, nullSliceOk), "GPU")
    /\ UNCHANGED outsideTransfer

\* Tensor::to(Device::CPU) of the GPU tensor: to_cpu calls gpu_buf.to_cpu, the
\* readback of the buffer, which fails when the buffer cannot be mapped.
ToCpu ==
    /\ transfer.at = "GPU" /\ transfer.result = "Ok"
    /\ \/ transfer' = [transfer EXCEPT !.at = "CPU again"]
       \/ transfer' = [transfer EXCEPT !.result = "DeviceError"]
    /\ UNCHANGED outsideTransfer

\* ----------------------------------------------------- operation methods
\* Strides::from(&shape): the row-major strides of a shape.
RECURSIVE strides_from(_)
strides_from(shape) ==
    IF shape = <<>> THEN <<>> ELSE <<numel(Tail(shape))>> \o strides_from(Tail(shape))

\* Shape::left_pad_to(fill, target_rank)
RECURSIVE left_pad_to(_, _, _)
left_pad_to(shape, fill, target_rank) ==
    IF Len(shape) >= target_rank THEN shape
    ELSE left_pad_to(<<fill>> \o shape, fill, target_rank)

\* The views of the destination: a shape with its row-major strides, or the
\* permute of one, whose strides are those of the permuted axes.
RowMajor(shape) == [shape |-> shape, strides |-> strides_from(shape)]

Permuted(shape) ==
    [shape |-> <<shape[2], shape[1]>>,
     strides |-> <<strides_from(shape)[2], strides_from(shape)[1]>>]

DstViews ==
    {RowMajor(shape) : shape \in {<<4>>, <<5>>, <<3, 2>>, <<2, 3>>}}
        \cup {Permuted(shape) : shape \in {<<3, 2>>, <<2, 3>>}}

SrcShapes == {<<1>>, <<2>>, <<1, 2>>}

\* write_start of the rank of dst, or of another length, or longer than 4.
OpWriteStarts == {<<0>>, <<2, 0>>, <<0, 0, 0, 0, 1>>}

\* IndexWrite { dst, src, write_start }, no method called yet.
IndexWrite(dst, src, write_start) ==
    [dst |-> dst, src |-> src, write_start |-> write_start,
     method |-> "none", arg |-> FALSE, result |-> <<>>]

OpIdle == opcall = IndexWrite(RowMajor(<<4>>), <<1>>, <<0>>)

OpInit ==
    \E dst \in DstViews, src \in SrcShapes, write_start \in OpWriteStarts :
        opcall = IndexWrite(dst, src, write_start)

\* IndexWrite::kernel_name
kernel_name == "index_write"

\* IndexWrite::supports_inplace
supports_inplace == TRUE

\* A faulty variant of kernel_element: the width is chosen by the element
\* count of dst.
kernel_elementByNumel(dst) ==
    IF numel(dst.shape) % 4 = 0 THEN "Vec4"
    ELSE IF numel(dst.shape) % 2 = 0 THEN "Vec2" ELSE "Scalar"

\* IndexWrite::kernel_element
kernel_element(dst) == "Scalar"

\* IndexWrite::kernel_key: "index_write_" and the element's name.
kernel_key(inplace, dst) == <<"index_write", kernel_element(dst)>>

\* A faulty variant of storage_bind_group_layout: the layout of a binary
\* operation that is not in place instead of the panic.
storage_bind_group_layoutAny(inplace) ==
    IF ~inplace THEN "binary" ELSE "binary_inplace"

\* IndexWrite::storage_bind_group_layout
storage_bind_group_layout(inplace) ==
    IF ~inplace THEN "Panic" ELSE "binary_inplace"

\* The array `start` of write_metadata: write_start, right-aligned in 4 lanes.
start_of(write_start) ==
    LET offset == 4 - Len(write_start)
    IN  [k \in 1..4 |-> IF k > offset THEN write_start[k - offset] ELSE 0]

\* IndexWriteMeta, or the panic of the call that was to write it.
IndexWriteMeta(panic, dst_strides, src_numel, write_start) ==
    [panic |-> panic, dst_strides |-> dst_strides, src_numel |-> src_numel,
     write_start |-> write_start]

\* IndexWrite::write_metadata: the IndexWriteMeta it writes to the uniform.
\* For a write_start of more than 4 entries `4 - self.write_start.len()`
\* overflows: a panic where overflow is checked, and otherwise an offset so
\* large that start[0 + offset] is out of bounds, a panic as well. The
\* `as u32` casts keep every value below 2^32, as all values here are.
write_metadata(op) ==
    IF Len(op.write_start) > 4 THEN IndexWriteMeta(TRUE, <<>>, 0, <<>>)
    ELSE IndexWriteMeta(FALSE, strides_from(left_pad_to(op.dst.shape, 1, 4)),
                        numel(left_pad_to(op.src, 1, 4)), start_of(op.write_start))

\* A method of the operation is called and returns.
Called(method, arg, result) ==
    /\ opcall.method = "none"
    /\ opcall' = [opcall EXCEPT !.method = method, !.arg = arg, !.result = result]
    /\ UNCHANGED outsideOp

KernelElement == Called("kernel_element", FALSE, kernel_element(opcall.dst))

KernelKey == \E inplace \in BOOLEAN : Called("kernel_key", inplace, kernel_key(inplace, opcall.dst))

SupportsInplace == Called("supports_inplace", FALSE, supports_inplace)

StorageBindGroupLayout ==
    \E inplace \in BOOLEAN :
        Called("storage_bind_group_layout", inplace, storage_bind_group_layout(inplace))

WriteMetadata == Called("write_metadata", FALSE, write_metadata(opcall))

\* ------------------------------------------------------------- CPU buffers
Addrs == 1..NumAddrs

\* The alignments buffers are asked for: of u8, of f32, and one that is no
\* power of two.
Aligns == {1, 3, 4}

\* The data slices buffers are built from.
BufSlices == {data \in Slices : Len(data) <= 1}

\* A raw buffer (pointer, layout) under an Arc with one handle; ptr 0 is the
\* null pointer, gen tells the allocation apart from earlier ones at the same
\* address, tensor is the tensor whose storage the buffer is.
RawCPUBuffer(ptr, gen, size, alignment, allocs, tensor) ==
    [ptr |-> ptr, gen |-> gen, size |-> size, align |-> alignment, handles |-> 1,
     allocs |-> allocs, frees |-> 0, tensor |-> tensor]

\* No buffer built; checks tells whether the build checks the preconditions
\* of unsafe functions.
NewHeap(checks) ==
    [raws |-> <<>>,
     mem |-> [a \in Addrs |-> [allocated |-> FALSE, gen |-> 0, bytes |-> <<>>]],
     checks |-> checks, panicked |-> FALSE, last |-> <<"init", 0>>]

HeapIdle == heap = NewHeap(FALSE)

HeapInit == \E checks \in BOOLEAN : heap = NewHeap(checks)

\* The memory of raw buffer r is the allocation it was built over.
Intact(h, r) ==
    \/ h.raws[r].ptr = 0
    \/ /\ h.mem[h.raws[r].ptr].allocated
       /\ h.mem[h.raws[r].ptr].gen = h.raws[r].gen

\* RawCPUBuffer::as_bytes
as_bytes(h, r) == IF h.raws[r].ptr = 0 THEN <<>> ELSE h.mem[h.raws[r].ptr].bytes

\* RawCPUBuffer::uninitialized: the pointers it may return, 0 for the null
\* pointer of size 0 and -1 for a panic (Layout::from_size_align refuses an
\* alignment that is no power of two; the assert refuses the null pointer of
\* an allocator that has no memory left).
uninitialized(size, alignment) ==
    IF alignment \notin {1, 2, 4, 8} THEN {-1}
    ELSE IF size = 0 THEN {0}
    ELSE IF \A a \in Addrs : heap.mem[a].allocated THEN {-1}
    ELSE {a \in Addrs : ~heap.mem[a].allocated}

\* The call ends in a panic.
HeapPanic(op, arg) == heap' = [heap EXCEPT !.panicked = TRUE, !.last = <<op, arg>>]

\* A buffer over ptr, filled with bytes, joins the raw buffers.
Filled(op, arg, ptr, bytes, alignment, tensor) ==
    LET gen == IF ptr = 0 THEN 0 ELSE heap.mem[ptr].gen + 1
    IN  heap' = [heap EXCEPT
                    !.raws = Append(@, RawCPUBuffer(ptr, gen, Len(bytes), alignment,
                                                    IF ptr = 0 THEN 0 ELSE 1, tensor)),
                    !.mem = IF ptr = 0 THEN @
                            ELSE [@ EXCEPT ![ptr] = [allocated |-> TRUE, gen |-> gen,
                                                     bytes |-> bytes]],
                    !.last = <<op, arg>>]

\* A Const tensor on the CPU is built over the bytes of data: CPUBuffer::
\* from_bytes with the alignment of the element type.
CPUBuffer_from_bytes(data, alignment) ==
    /\ ~heap.panicked
    /\ Len(heap.raws) < MaxRaws
    /\ LET bytes == cast_slice(data)
       IN  \E ptr \in uninitialized(Len(bytes), alignment) :
               IF ptr = -1 \/ from_bytes(bytes, ~heap.checks).panic
               THEN HeapPanic("from_bytes", 0)
               ELSE Filled("from_bytes", 0, ptr, bytes, alignment,
                           TensorNew("Const", StorageView(<<Len(data)>>, "F32"), <<>>, "CPU"))
    /\ UNCHANGED outsideHeap

\* #[derive(Clone)] of CPUBuffer: one more handle under the same Arc.
CPUBuffer_clone(r) ==
    /\ ~heap.panicked
    /\ heap.raws[r].handles \in 1..(MaxHandles - 1)
    /\ heap' = [heap EXCEPT !.raws[r].handles = @ + 1, !.last = <<"clone", r>>]
    /\ UNCHANGED outsideHeap

\* impl Drop for RawCPUBuffer, run on memory that holds (intact) or no longer
\* holds the buffer's allocation; freeing the latter is undefined behaviour,
\* which the allocator answers with an abort or by freeing what is there.
Drop(r) ==
    IF heap.raws[r].ptr = 0 \/ heap.raws[r].size = 0
    THEN heap' = [heap EXCEPT !.raws[r].handles = 0, !.last = <<"drop", r>>]
    ELSE \/ heap' = [heap EXCEPT !.raws[r].handles = 0, !.raws[r].frees = @ + 1,
                                 !.mem[heap.raws[r].ptr].allocated = FALSE,
                                 !.last = <<"drop", r>>]
         \/ ~Intact(heap, r) /\ HeapPanic("drop", r)

\* A CPUBuffer handle is dropped; the Arc drops the raw buffer with its last one.
CPUBuffer_drop(r) ==
    /\ ~heap.panicked
    /\ heap.raws[r].handles >= 1
    /\ IF heap.raws[r].handles > 1
       THEN heap' = [heap EXCEPT !.raws[r].handles = @ - 1, !.last = <<"drop", r>>]
       ELSE Drop(r)
    /\ UNCHANGED outsideHeap

\* What as_bytes() of buffer r reads: its bytes, or, from memory that no
\* longer holds its allocation, any bytes.
Reads(r) ==
    IF Intact(heap, r) THEN {as_bytes(heap, r)}
    ELSE {cast_slice(data) : data \in {d \in BufSlices : Len(cast_slice(d)) = heap.raws[r].size}}

\* A faulty variant of CPUBuffer_deep_clone: the clone is another buffer over
\* the memory of the original.
CPUBuffer_deep_cloneShares(r) ==
    /\ ~heap.panicked
    /\ heap.raws[r].handles >= 1 /\ heap.raws[r].tensor.op = "Const"
    /\ Len(heap.raws) < MaxRaws
    /\ heap' = [heap EXCEPT
                   !.raws = Append(@, [heap.raws[r] EXCEPT !.handles = 1, !.allocs = 0]),
                   !.last = <<"deep_clone", r>>]
    /\ UNCHANGED outsideHeap

\* Tensor::deep_clone of a tensor on the CPU: CPUBuffer::deep_clone clones the
\* raw buffer (uninitialized with the size and alignment of the original,
\* then copy_from_slice of its bytes); the clone is the storage of a new
\* Const tensor with the view and device of the original.
CPUBuffer_deep_clone(r) ==
    /\ ~heap.panicked
    /\ heap.raws[r].handles >= 1 /\ heap.raws[r].tensor.op = "Const"
    /\ Len(heap.raws) < MaxRaws
    /\ \E ptr \in uninitialized(heap.raws[r].size, heap.raws[r].align), bytes \in Reads(r) :
          IF ptr = -1 \/ from_bytes(bytes, ~heap.checks).panic
          THEN HeapPanic("deep_clone", r)
          ELSE Filled("deep_clone", r, ptr, bytes, heap.raws[r].align,
                      TensorNew("Const", heap.raws[r].tensor.view, <<>>,
                                heap.raws[r].tensor.device))
    /\ UNCHANGED outsideHeap

\* CPUBuffer::new(RawCPUBuffer::new(ptr, layout)) over the parts that
\* into_raw_parts of buffer r returns: a second raw buffer over the same memory.
RawCPUBuffer_new(r) ==
    /\ ~heap.panicked
    /\ heap.raws[r].handles >= 1
    /\ Len(heap.raws) < MaxRaws
    /\ heap' = [heap EXCEPT
                   !.raws = Append(@, RawCPUBuffer(heap.raws[r].ptr, heap.raws[r].gen,
                                                   heap.raws[r].size, heap.raws[r].align, 0,
                                                   [heap.raws[r].tensor EXCEPT !.op = "none"])),
                   !.last = <<"new", r>>]
    /\ UNCHANGED outsideHeap

\* ------------------------------------------------------------ model header
\* i32::MAX
I32_MAX == 2147483647

Abs(x) == IF x < 0 THEN 0 - x ELSE x

\* write_i32::<LittleEndian>: the four bytes of the two's complement of x,
\* least significant first.
write_i32(x) ==
    IF x >= 0 THEN le_bytes(x)
    ELSE LET low == le_bytes((x + I32_MAX) + 1)
         IN  <<low[1], low[2], low[3], low[4] + 128>>

\* read_i32::<LittleEndian> over four bytes.
i32_from_le_bytes(b) ==
    b[1] + 256 * b[2] + 65536 * b[3]
         + 16777216 * (IF b[4] >= 128 THEN b[4] - 256 ELSE b[4])

\* read_u32::<LittleEndian> and the bits read_f32::<LittleEndian> turns into
\* an f32, over four bytes (values below 2^31).
u32_from_le_bytes(b) == b[1] + 256 * b[2] + 65536 * b[3] + 16777216 * b[4]

\* One column of the long multiplication of two numbers given by their bytes.
RECURSIVE Column(_, _, _, _)
Column(a, b, k, i) ==
    IF i > k THEN 0 ELSE a[i] * b[k + 1 - i] + Column(a, b, k, i + 1)

\* The four low bytes of the product of two numbers given by their bytes.
RECURSIVE MulLimbs(_, _, _, _)
MulLimbs(a, b, k, carry) ==
    IF k > 4 THEN <<>>
    ELSE LET sum == carry + Column(a, b, k, 1)
         IN  <<sum % 256>> \o MulLimbs(a, b, k + 1, sum \div 256)

\* i32 multiplication in a build without overflow checks: the product modulo 2^32.
wrapping_mul(x, y) == i32_from_le_bytes(MulLimbs(write_i32(x), write_i32(y), 1, 0))

\* Whether x * y leaves the range of i32, which a build with overflow checks
\* answers with a panic (for x and y above i32::MIN).
mul_overflows(x, y) ==
    LET r == wrapping_mul(x, y)
    IN  /\ x # 0
        /\ y # 0
        /\ ~ /\ Abs(r) % Abs(x) = 0
             /\ Abs(r) \div Abs(x) = Abs(y)
             /\ (r < 0) = ((x < 0) # (y < 0))

\* Largest number of vocabulary tokens of a header.
MaxTokens == 2
\* Largest number of mel filter coefficients of a header.
MaxMels == 4

\* GGMLFormat by its magic number: "ggml" and "ggjt".
Formats == {1734831468, 1734830708}

\* The fields of HyperParameters in the order HyperParameters::write writes them.
HParamsWritten ==
    <<"n_vocab", "n_audio_ctx", "n_audio_state", "n_audio_head", "n_audio_layer",
      "n_text_ctx", "n_text_state", "n_text_head", "n_text_layer", "n_mels", "ftype">>

\* The fields of HyperParameters in the order HyperParameters::read reads them.
HParamsRead ==
    <<"n_vocab", "n_audio_ctx", "n_audio_state", "n_audio_head", "n_audio_layer",
      "n_text_ctx", "n_text_state", "n_text_head", "n_text_layer", "n_mels", "ftype">>

\* struct HyperParameters
HyperParameters(v) ==
    [n_vocab |-> v[1], n_audio_ctx |-> v[2], n_audio_state |-> v[3],
     n_audio_head |-> v[4], n_audio_layer |-> v[5], n_text_ctx |-> v[6],
     n_text_state |-> v[7], n_text_head |-> v[8], n_text_layer |-> v[9],
     n_mels |-> v[10], ftype |-> v[11]]

\* The hyper-parameters of the tiny model, and a set of eleven different
\* values with negative and extreme ones among them.
HParamSets ==
    {HyperParameters(<<51865, 1500, 384, 6, 4, 448, 384, 6, 4, 80, 1>>),
     HyperParameters(<<-1, 0, I32_MAX, -I32_MAX, 256, -256, 65536, 3, 16777216, 80, -2>>)}

\* The values of n_mel and n_fft: 65536 * 65536 is 2^32.
Dims == {-1, 0, 1, 2, 65536}

\* The mel coefficients, by bit pattern.
MelElems == {258, 1065353216}

\* struct MelFilters, with as many coefficients as the expression n_mel * n_fft
\* counts in a build without overflow checks.
MelFilterSets ==
    {[n_mel |-> n_mel, n_fft |-> n_fft, mels |-> mels] :
        n_mel \in Dims, n_fft \in Dims,
        mels \in UNION {[1..n -> MelElems] : n \in 0..MaxMels}}

MelFilters ==
    {f \in MelFilterSets : Len(f.mels) = wrapping_mul(f.n_mel, f.n_fft)}

\* struct WhisperGGMLHeader
Headers ==
    [format : Formats, hparams : HParamSets, filters : MelFilters, n_tokens : 0..MaxTokens]

\* GGMLFormat::write
GGMLFormat_write(format) == le_bytes(format)

\* HyperParameters::write
RECURSIVE HyperParameters_writeFrom(_, _)
HyperParameters_writeFrom(hparams, k) ==
    IF k > Len(HParamsWritten) THEN <<>>
    ELSE write_i32(hparams[HParamsWritten[k]]) \o HyperParameters_writeFrom(hparams, k + 1)

HyperParameters_write(hparams) == HyperParameters_writeFrom(hparams, 1)

\* MelFilters::write
MelFilters_write(filters) ==
    write_i32(filters.n_mel) \o write_i32(filters.n_fft) \o cast_slice(filters.mels)

\* The token lengths write_header writes: n_tokens times a u32 of 0.
RECURSIVE ZeroTokens(_)
ZeroTokens(n) == IF n <= 0 THEN <<>> ELSE le_bytes(0) \o ZeroTokens(n - 1)

\* Whisper::write_header
write_header(header) ==
    GGMLFormat_write(header.format) \o HyperParameters_write(header.hparams)
        \o MelFilters_write(header.filters) \o write_i32(header.n_tokens)
        \o ZeroTokens(header.n_tokens)

\* Four bytes at the reader's position, or none at the end of the input.
CanRead(bytes, pos, n) == pos + n <= Len(bytes)

Word(bytes, pos) == SubSeq(bytes, pos + 1, pos + 4)

Read(result, value, pos) == [result |-> result, value |-> value, pos |-> pos]

\* GGMLFormat::read
GGMLFormat_read(bytes, pos) ==
    IF ~CanRead(bytes, pos, 4) THEN Read("Err", 0, pos)
    ELSE Read("Ok", u32_from_le_bytes(Word(bytes, pos)), pos + 4)

\* HyperParameters::read
HyperParameters_read(bytes, pos) ==
    IF ~CanRead(bytes, pos, 4 * Len(HParamsRead)) THEN Read("Err", 0, pos)
    ELSE Read("Ok",
              [f \in {HParamsRead[k] : k \in 1..Len(HParamsRead)} |->
                  LET k == CHOOSE j \in 1..Len(HParamsRead) : HParamsRead[j] = f
                  IN  i32_from_le_bytes(Word(bytes, pos + 4 * (k - 1)))],
              pos + 4 * Len(HParamsRead))

\* MelFilters::read. checks: the build has overflow checks, and n_mel * n_fft
\* panics where it overflows; without them the product wraps.
MelFilters_read(bytes, pos, checks) ==
    IF ~CanRead(bytes, pos, 8) THEN Read("Err", 0, pos)
    ELSE LET n_mel == i32_from_le_bytes(Word(bytes, pos))
             n_fft == i32_from_le_bytes(Word(bytes, pos + 4))
             count == wrapping_mul(n_mel, n_fft)
             n == IF count < 0 THEN 0 ELSE count
         IN  IF checks /\ mul_overflows(n_mel, n_fft) THEN Read("Panic", 0, pos)
             ELSE IF ~CanRead(bytes, pos + 8, 4 * n) THEN Read("Err", 0, pos)
             ELSE Read("Ok",
                       [n_mel |-> n_mel, n_fft |-> n_fft,
                        mels |-> [k \in 1..n |->
                                    u32_from_le_bytes(Word(bytes, pos + 8 + 4 * (k - 1)))]],
                       pos + 8 + 4 * n)

\* The loop of load_header over the tokens: read a length, seek past the token.
RECURSIVE SkipTokens(_, _, _)
SkipTokens(bytes, pos, n) ==
    IF n <= 0 THEN Read("Ok", 0, pos)
    ELSE IF ~CanRead(bytes, pos, 4) THEN Read("Err", 0, pos)
    ELSE SkipTokens(bytes, pos + 4 + u32_from_le_bytes(Word(bytes, pos)), n - 1)

\* No header has been loaded.
NoHeader == [result |-> "", header |-> <<>>, pos |-> 0]

Loaded(result, header, pos) == [result |-> result, header |-> header, pos |-> pos]

\* Whisper::load_header
load_header(bytes, checks) ==
    LET format == GGMLFormat_read(bytes, 0)
        hparams == HyperParameters_read(bytes, format.pos)
        filters == MelFilters_read(bytes, hparams.pos, checks)
        tokens == SkipTokens(bytes, filters.pos + 4,
                             i32_from_le_bytes(Word(bytes, filters.pos)))
    IN  IF format.result # "Ok" THEN Loaded(format.result, <<>>, format.pos)
        ELSE IF hparams.result # "Ok" THEN Loaded(hparams.result, <<>>, hparams.pos)
        ELSE IF filters.result # "Ok" THEN Loaded(filters.result, <<>>, filters.pos)
        ELSE IF ~CanRead(bytes, filters.pos, 4) THEN Loaded("Err", <<>>, filters.pos)
        ELSE IF tokens.result # "Ok" THEN Loaded(tokens.result, <<>>, tokens.pos)
        ELSE Loaded("Ok",
                    [format |-> format.value, hparams |-> hparams.value,
                     filters |-> filters.value,
                     n_tokens |-> i32_from_le_bytes(Word(bytes, filters.pos))],
                    tokens.pos)

\* A header in memory, in a build with or without overflow checks.
NewFile(header, checks) ==
    [header |-> header, checks |-> checks, at |-> "memory", bytes |-> <<>>,
     loaded |-> NoHeader]

HeaderIdle ==
    file = NewFile([format |-> 1734831468,
                    hparams |-> HyperParameters(<<51865, 1500, 384, 6, 4, 448, 384, 6, 4, 80, 1>>),
                    filters |-> [n_mel |-> 0, n_fft |-> 0, mels |-> <<>>],
                    n_tokens |-> 0],
                   FALSE)

HeaderInit == \E header \in Headers, checks \in BOOLEAN : file = NewFile(header, checks)

\* The header is written to an empty file.
WriteHeader ==
    /\ file.at = "memory"
    /\ file' = [file EXCEPT !.at = "written", !.bytes = write_header(file.header)]
    /\ UNCHANGED outsideHeader

\* The file is read back from its start.
LoadHeader ==
    /\ file.at = "written"
    /\ file' = [file EXCEPT !.at = "loaded", !.loaded = load_header(file.bytes, file.checks)]
    /\ UNCHANGED outsideHeader

\* ---------------------------------------------------------- specifications
Init == GraphInit /\ PoolIdle /\ DispatchIdle /\ TransferIdle /\ HeapIdle /\ OpIdle /\ HeaderIdle

Next ==
    \/ \E data \in Datas, shape \in Shapes, d \in Devices, ok \in BOOLEAN :
          from_data(data, shape, d, ok)
    \/ \E a \in Ids, b \in Ids, ok \in BOOLEAN : add(a, b, ok)
    \/ \E a \in Ids, b \in Ids, ok \in BOOLEAN : matmul(a, b, ok)
    \/ \E input \in Ids, w \in Ids, b \in Ids \cup {0}, ok \in BOOLEAN :
          Linear_schedule(input, w, b, ok)
    \/ \E root \in Ids : resolve(root)
    \/ \E t \in Ids, d \in Devices, ok \in BOOLEAN : to(t, d, ok)
    \/ \E t \in Ids, ok \in BOOLEAN : deep_clone(t, ok)

Spec == Init /\ [][Next]_vars

\* ------------------------------------------------- resolve, step by step
\* The index dispatch_operations returns for the batch of a resolve.
SubmissionIndex == 1

\* The events of pushing CompiledOps: one per node of the sequence.
Compiled(ts) == [k \in 1..Len(ts) |-> <<"compile", ts[k]>>]

\* The same resolve as run by one of several threads that share the graph:
\* each step is one acquisition of a storage lock (read in resolved(), write
\* in update_storage) with the thread-local work that follows it.
Goto(th, rec) == threads' = [threads EXCEPT ![th] = rec]

Done(th, result, errId) ==
    Goto(th, [threads[th] EXCEPT !.pc = "done", !.result = result, !.errId = errId])

\* resolve up to the loop: try_gpu, execution_order, allocate_cfg.
Begin(th, root) ==
    /\ threads[th].pc = "idle"
    /\ UNCHANGED <<nodes, storage, last, writes, outside>>
    /\ \/ /\ ~is_gpu(nodes[root].device)
          /\ Done(th, "DeviceError", 0)
       \/ /\ is_gpu(nodes[root].device)
          /\ OrderPanics(root)
          /\ Done(th, "Panic", 0)
       \/ /\ is_gpu(nodes[root].device)
          /\ ~OrderPanics(root)
          /\ Done(th, "DeviceError", 0)
       \/ /\ is_gpu(nodes[root].device)
          /\ ~OrderPanics(root)
          /\ \E allocations \in Plans(execution_order(root)) :
                Goto(th, [Idle EXCEPT !.pc = "check", !.root = root,
                                      !.order = execution_order(root), !.i = 1,
                                      !.allocations = allocations])

\* if !t.resolved() { allocations.get(&id).ok_or(NoStorage)?; assert!(is_gpu) ..
Check(th) ==
    /\ threads[th].pc = "check"
    /\ UNCHANGED <<nodes, storage, last, writes, outside>>
    /\ LET t == threads[th].order[threads[th].i]
       IN  IF resolved(t) THEN Goto(th, [threads[th] EXCEPT !.pc = "compile"])
           ELSE IF t \notin DOMAIN threads[th].allocations THEN Done(th, "NoStorage", t)
           ELSE IF ~is_gpu(nodes[t].device) THEN Done(th, "Panic", 0)
           ELSE Goto(th, [threads[th] EXCEPT !.pc = "write"])

\* .. t.update_storage(storage) }
Write(th) ==
    /\ threads[th].pc = "write"
    /\ UNCHANGED <<nodes, last, outside>>
    /\ LET t == threads[th].order[threads[th].i]
       IN  /\ storage' = [storage EXCEPT
                             ![t] = StorageOf("GPU", <<"pool", threads[th].allocations[t]>>,
                                              num_bytes(t))]
           /\ writes' = [writes EXCEPT ![t] = @ + 1]
    /\ Goto(th, [threads[th] EXCEPT !.pc = "compile"])

\* if let Some(compiled_op) = t.compile(..) { compiled_ops.push(compiled_op) }
Compile(th, compileOk) ==
    /\ threads[th].pc = "compile"
    /\ UNCHANGED <<nodes, storage, last, writes, outside>>
    /\ LET t == threads[th].order[threads[th].i]
           fails == IF compileOk THEN {} ELSE {t}
       IN  Goto(th, [threads[th] EXCEPT
                        !.compiled = @ \o compile(t, fails),
                        !.events = @ \o Compiled(compile(t, fails)),
                        !.i = @ + 1,
                        !.pc = IF threads[th].i = Len(threads[th].order)
                               THEN "dispatch" ELSE "check"])

\* dispatch_operations(device).unwrap(); poll; Ok(())
Dispatch(th, dispatchOk) ==
    /\ threads[th].pc = "dispatch"
    /\ UNCHANGED <<nodes, storage, last, writes, outside>>
    /\ IF dispatchOk
       THEN Goto(th, [threads[th] EXCEPT
                        !.pc = "done", !.result = "Ok",
                        !.events = @ \o <<<<"submit", SubmissionIndex>>,
                                          <<"poll", SubmissionIndex>>>>])
       ELSE Done(th, "Panic", 0)

\* The same in two steps. let index = executable.dispatch_operations(device)
\* .unwrap(): the batch is submitted.
Submit(th, dispatchOk) ==
    /\ threads[th].pc = "dispatch"
    /\ UNCHANGED <<nodes, storage, last, writes, outside>>
    /\ IF dispatchOk
       THEN Goto(th, [threads[th] EXCEPT
                        !.pc = "poll",
                        !.events = Append(@, <<"submit", SubmissionIndex>>)])
       ELSE Done(th, "Panic", 0)

\* device.poll(WaitForSubmissionIndex(index)); Ok(())
Poll(th) ==
    /\ threads[th].pc = "poll"
    /\ UNCHANGED <<nodes, storage, last, writes, outside>>
    /\ Goto(th, [threads[th] EXCEPT
                    !.pc = "done", !.result = "Ok",
                    !.events = Append(@, <<"poll", @[Len(@)][2]>>)])

\* The graph is built by one thread before the resolver threads start.
Build ==
    /\ AllIdle
    /\ \/ \E d \in Devices : from_data(<<1, 1>>, <<2>>, d, TRUE)
       \/ \E a \in Ids, b \in Ids : add(a, b, TRUE)
       \/ \E a \in Ids, b \in Ids : matmul(a, b, TRUE)

NextConc ==
    \/ Build
    \/ \E th \in Threads, root \in Ids : Begin(th, root)
    \/ \E th \in Threads : Check(th)
    \/ \E th \in Threads : Write(th)
    \/ \E th \in Threads, ok \in BOOLEAN : Compile(th, ok)
    \/ \E th \in Threads, ok \in BOOLEAN : Dispatch(th, ok)

SpecConc == Init /\ [][NextConc]_vars

\* One thread resolves, step by step, up to the poll of the device.
NextOrder ==
    \/ Build
    \/ \E root \in Ids : Begin(1, root)
    \/ Check(1)
    \/ Write(1)
    \/ \E ok \in BOOLEAN : Compile(1, ok)
    \/ \E ok \in BOOLEAN : Submit(1, ok)
    \/ Poll(1)

SpecOrder == Init /\ [][NextOrder]_vars

\* The tensor graph with index_write among its builders.
NextIndexWrite ==
    \/ Next
    \/ \E dst \in Ids, src \in Ids, write_start \in WriteStarts :
          index_write(dst, src, write_start)

SpecIndexWrite == Init /\ [][NextIndexWrite]_vars

\* One thread at a time calls get_or_create on a pipeline pool.
NextPool ==
    \/ \E desc \in Descs : get_or_create(desc)
    \/ \E value \in EnvValues : set_var(value)

\* A pool built over any device, next to an empty graph.
InitPool == GraphInit /\ PoolInit /\ DispatchIdle /\ TransferIdle /\ HeapIdle /\ OpIdle /\ HeaderIdle

SpecPool == InitPool /\ [][NextPool]_vars

\* Several threads call get_or_create on a pipeline pool.
NextPoolConc ==
    \/ \E th \in Threads, desc \in Descs : Lookup(th, desc)
    \/ \E th \in Threads : Create(th)
    \/ \E th \in Threads : InsertNew(th)

SpecPoolConc == InitPool /\ [][NextPoolConc]_vars

\* The workgroup count of an IndexWrite is calculated.
NextDispatch == CalculateDispatch

InitDispatch ==
    GraphInit /\ PoolIdle /\ DispatchInit /\ TransferIdle /\ HeapIdle /\ OpIdle /\ HeaderIdle

SpecDispatch == InitDispatch /\ [][NextDispatch]_vars

\* A data slice on its way from the caller to the CPU, to the GPU and back.
NextTransfer == FromSlice \/ ToDevice \/ ToCpu

InitTransfer ==
    GraphInit /\ PoolIdle /\ DispatchIdle /\ TransferInit /\ HeapIdle /\ OpIdle /\ HeaderIdle

SpecTransfer == InitTransfer /\ [][NextTransfer]_vars

\* CPU buffers are built, shared, cloned and dropped.
NextBuffer ==
    \/ \E data \in BufSlices, alignment \in Aligns : CPUBuffer_from_bytes(data, alignment)
    \/ \E r \in 1..Len(heap.raws) : CPUBuffer_clone(r)
    \/ \E r \in 1..Len(heap.raws) : CPUBuffer_drop(r)
    \/ \E r \in 1..Len(heap.raws) : CPUBuffer_deep_clone(r)

InitBuffer == GraphInit /\ PoolIdle /\ DispatchIdle /\ TransferIdle /\ HeapInit /\ OpIdle /\ HeaderIdle

SpecBuffer == InitBuffer /\ [][NextBuffer]_vars

\* The same, by a caller that also builds raw buffers from raw parts.
NextRawParts ==
    \/ NextBuffer
    \/ \E r \in 1..Len(heap.raws) : RawCPUBuffer_new(r)

SpecRawParts == InitBuffer /\ [][NextRawParts]_vars

\* The compiler calls a method of an IndexWrite operation.
NextOp == KernelElement \/ KernelKey \/ SupportsInplace \/ StorageBindGroupLayout \/ WriteMetadata

InitOp == GraphInit /\ PoolIdle /\ DispatchIdle /\ TransferIdle /\ HeapIdle /\ OpInit /\ HeaderIdle

SpecOp == InitOp /\ [][NextOp]_vars

\* A model header is written and loaded back.
NextHeader == WriteHeader \/ LoadHeader

InitHeader == GraphInit /\ PoolIdle /\ DispatchIdle /\ TransferIdle /\ HeapIdle /\ OpIdle /\ HeaderInit

SpecHeader == InitHeader /\ [][NextHeader]_vars

\* ------------------------------------------------------------------ claims
Roots == {root \in Ids : ~OrderPanics(root)}

\* C1: in execution_order(root), every source of a node stands at a smaller
\* index than the node itself.
C1_SourcesPrecedeConsumers ==
    \A root \in Roots :
        LET order == execution_order(root)
        IN  \A i \in 1..Len(order) :
            \A k \in 1..Len(nodes[order[i]].srcs) :
                \E j \in 1..(i - 1) : order[j] = nodes[order[i]].srcs[k]

\* C2: execution_order(root) holds exactly the nodes reachable from root, each
\* once, nodes being distinguished by id.
C2_OrderIsReachableOnce ==
    \A root \in Roots :
        LET order == execution_order(root)
        IN  /\ {order[i] : i \in 1..Len(order)} = Reachable(root)
            /\ \A i \in 1..Len(order), j \in 1..Len(order) :
                   order[i] = order[j] => i = j

\* C2's case: a root over two distinct nodes with identical op, sources and device.
C2_Witness ==
    \E root \in Roots :
        /\ nodes[root].op = "Binary"
        /\ LET a == nodes[root].srcs[1]
               b == nodes[root].srcs[2]
           IN  a # b /\ nodes[a] = nodes[b]

\* C3: when resolve(root) returned Ok, every node reachable from root has
\* populated storage.
C3_OkMeansAllResolved ==
    (last.op = "resolve" /\ last.result = "Ok")
        => \A t \in Reachable(last.arg[1]) : resolved(t)

\* C3's case: a resolve that returned Ok after giving storage to two nodes.
C3_Witness ==
    last.op = "resolve" /\ last.result = "Ok" /\ Cardinality(last.assigned) = 2

\* C4: a populated storage slot is never overwritten and never cleared.
C4_StorageWrittenOnce ==
    [][\A t \in Ids : storage[t] # Empty => storage'[t] = storage[t]]_vars

\* C4's case: a resolve ran over a lazy node that was already resolved.
C4_Witness ==
    /\ last.op = "resolve" /\ last.result = "Ok"
    /\ \E t \in Reachable(last.arg[1]) :
           nodes[t].op # "Const" /\ t \notin last.assigned

\* C8: every Const node has populated storage.
C8_ConstAlwaysResolved ==
    \A t \in Ids : nodes[t].op = "Const" => resolved(t)

\* C8's case: Const nodes made by from_data, by a transfer across devices and
\* by deep_clone exist together.
C8_Witness ==
    /\ Len(nodes) = 3
    /\ \A t \in Ids : nodes[t].op = "Const"
    /\ nodes[1].device # nodes[2].device
    /\ last.op = "deep_clone" /\ last.result = "Ok"

\* C5: when two threads resolve roots that share an unresolved node, the
\* node's storage slot is written exactly once.
C5_SharedSlotWrittenOnce ==
    \A t \in Ids : writes[t] <= 1

\* C6: a resolve that returns Ok on a root whose reachable nodes are all
\* resolved already assigns no storage and records (hence dispatches) no
\* CompiledOp.
C6_SecondResolveIsNoOp ==
    [][(/\ last'.op = "resolve"
        /\ last'.result = "Ok"
        /\ \A t \in Reachable(last'.arg[1]) : resolved(t))
          => (storage' = storage /\ last'.assigned = {} /\ last'.compiled = <<>>)]_vars

\* C7: a resolve that returns Ok on a graph whose non-Const nodes are all
\* unresolved makes one submission holding one CompiledOp per non-Const node
\* reachable from the root.
C7_OneSubmissionOneOpPerNode ==
    [][(/\ last'.op = "resolve"
        /\ last'.result = "Ok"
        /\ \A t \in Reachable(last'.arg[1]) : nodes[t].op # "Const" => ~resolved(t))
          => (/\ last'.submitted = 1
              /\ Len(last'.compiled) =
                    Cardinality({t \in Reachable(last'.arg[1]) : nodes[t].op # "Const"}))]_vars

Builders == {"add", "matmul", "schedule"}

\* C9: add, matmul and Linear.schedule submit nothing, leave every existing
\* node and storage slot as it was, and on success add exactly one node, whose
\* storage is empty.
C9_BuildersOnlyBuild ==
    [][last'.op \in Builders
          => (/\ last'.submitted = 0
              /\ \A t \in Ids : nodes'[t] = nodes[t] /\ storage'[t] = storage[t]
              /\ IF last'.result = "Ok"
                 THEN /\ Len(nodes') = Len(nodes) + 1
                      /\ Len(storage') = Len(nodes')
                      /\ last'.ret = Len(nodes')
                      /\ storage'[Len(nodes')] = Empty
                 ELSE Len(nodes') = Len(nodes) /\ Len(storage') = Len(storage))]_vars

\* C9's case: a builder added a node to a graph that holds a resolved lazy node.
C9_Witness ==
    /\ last.op \in Builders /\ last.result = "Ok"
    /\ \E t \in Ids : nodes[t].op # "Const" /\ resolved(t)

C11_ToCopiesAcrossDevices ==
    [][(/\ last'.op = "to"
        /\ LET t == last'.arg[1]
           IN  t \in Ids /\ resolved(t) /\ is_gpu(nodes[t].device) # is_gpu(last'.arg[2]))
          => LET t == last'.arg[1]
                 new == Len(nodes) + 1
             IN  /\ \A u \in Ids : nodes'[u] = nodes[u] /\ storage'[u] = storage[u]
                 /\ IF last'.result = "Ok"
                    THEN /\ last'.ret = new
                         /\ Len(nodes') = new /\ Len(storage') = new
                         /\ nodes'[new].op = "Const"
                         /\ nodes'[new].view = nodes[t].view
                         /\ nodes'[new].device = last'.arg[2]
                         /\ storage'[new] # Empty
                         /\ storage'[new].kind = last'.arg[2]
                    ELSE Len(nodes') = Len(nodes) /\ Len(storage') = Len(storage)]_vars

\* C11's case: a lazy node that resolve gave a buffer was copied to the CPU.
C11_Witness ==
    /\ last.op = "to" /\ last.result = "Ok" /\ last.copied
    /\ nodes[last.arg[1]].op # "Const"
    /\ nodes[last.ret].device = "CPU"

C14_SourcesShareDevice ==
    \A t \in Ids :
        nodes[t].op \in {"Binary", "Matmul"}
            => \A k \in 1..Len(nodes[t].srcs) :
                   nodes[nodes[t].srcs[k]].device = nodes[t].device

\* C19: a resolve that returns Ok on a graph whose tensors all have a
\* zero-length dimension records no CompiledOp, so that none is dispatched.
C19_ZeroSizeResolveIsNoOp ==
    [][(/\ last'.op = "resolve"
        /\ last'.result = "Ok"
        /\ \A t \in Reachable(last'.arg[1]) : numel(nodes[t].view.shape) = 0)
          => last'.compiled = <<>>]_vars

\* C20: a resolve that returns NoStorage submits nothing and carries the id of
\* the first node of the execution order that has no storage; a resolve that
\* returns Ok passed no such node.
C20_NoStorageNamesNode ==
    (last.op = "resolve" /\ last.result \in {"Ok", "NoStorage"})
        => LET order == execution_order(last.arg[1])
               missing == {i \in 1..Len(order) : ~resolved(order[i])}
           IN  IF last.result = "Ok" THEN missing = {}
               ELSE /\ last.submitted = 0
                    /\ missing # {}
                    /\ \A i \in missing : last.ret = order[i] \/ \E j \in missing : j < i

\* C20's case: resolve gave one node a buffer and had none for a later one.
C20_Witness ==
    last.op = "resolve" /\ last.result = "NoStorage" /\ last.assigned # {}

\* The pipelines built for a descriptor: those the pool stores and those a
\* caller has built and not yet stored.
Built(desc) ==
    Cardinality({h \in 1..Len(pool.resources) : pool.resources[h].desc = desc})
        + Cardinality({th \in Threads : callers[th].pc = "insert" /\ callers[th].desc = desc})

\* C15: of the get_or_create calls made one after the other on one pool, any
\* two with equal descriptors returned the same handle, whatever calls came
\* between them, and the closure ran for the first of them only.
C15_EqualDescriptorsOneHandle ==
    /\ \A i \in 1..Len(got), j \in 1..Len(got) :
           got[i].desc = got[j].desc => got[i].handle = got[j].handle
    /\ \A i \in 1..Len(got) :
           got[i].created <=> ~\E j \in 1..(i - 1) : got[j].desc = got[i].desc
    /\ \A desc \in Descs : Built(desc) <= 1

\* C15's case: two calls with one descriptor, a call with another descriptor
\* between them.
C15_Witness ==
    /\ Len(got) = 3
    /\ got[1].desc = got[3].desc
    /\ got[2].desc # got[1].desc

Ceil(a, b) == CHOOSE q \in 0..a : q * b >= a /\ (q = 0 \/ (q - 1) * b < a)

\* C18: for n elements calculate_dispatch returns (ceil(n/64), 1, 1) while
\* ceil(n/64) <= MAX_WGS_PER_DIM, that is while n <= 64 * MAX_WGS_PER_DIM, and
\* (MAX_WGS_PER_DIM, ceil(ceil(n/64) / MAX_WGS_PER_DIM), 1) beyond.
C18_DispatchWrapsBeyondMax ==
    dispatch.wgc # <<>>
        => LET n == dispatch.numel
               groups == Ceil(n, 64)
           IN  /\ groups <= MAX_WGS_PER_DIM <=> n <= 64 * MAX_WGS_PER_DIM
               /\ IF n > 64 * MAX_WGS_PER_DIM
                  THEN dispatch.wgc = <<MAX_WGS_PER_DIM, Ceil(groups, MAX_WGS_PER_DIM), 1>>
                  ELSE dispatch.wgc = <<groups, 1, 1>>

\* C18's case: a count beyond 64 * MAX_WGS_PER_DIM that is no multiple of 64,
\* whose workgroups fill more than one row.
C18_Witness ==
    /\ dispatch.wgc # <<>>
    /\ dispatch.numel > 64 * MAX_WGS_PER_DIM
    /\ dispatch.numel % 64 # 0
    /\ dispatch.wgc[2] > 1

\* src, placed at write_start, lies inside dst.
Fits(dst, src, write_start) ==
    /\ Len(write_start) = Len(nodes[dst].view.shape)
    /\ Len(nodes[src].view.shape) = Len(nodes[dst].view.shape)
    /\ \A k \in 1..Len(write_start) :
           write_start[k] + nodes[src].view.shape[k] <= nodes[dst].view.shape[k]

\* C17, as far as the tensor graph shows it: the resolve of an index_write
\* node over resolved GPU tensors dst and src, src fitting inside dst at
\* write_start, returns Ok and leaves the node with storage of dst's size.
C17_IndexWriteResolves ==
    [][(/\ last'.op = "resolve"
        /\ LET root == last'.arg[1]
           IN  /\ nodes[root].op = "IndexWrite"
               /\ \A k \in 1..2 : /\ resolved(nodes[root].srcs[k])
                                  /\ is_gpu(nodes[nodes[root].srcs[k]].device)
               /\ Fits(nodes[root].srcs[1], nodes[root].srcs[2], nodes[root].attrs))
          => (/\ last'.result = "Ok"
              /\ storage'[last'.arg[1]] # Empty
              /\ storage'[last'.arg[1]].n_bytes = num_bytes(nodes[last'.arg[1]].srcs[1]))]_vars

\* C12: for any data x and any shape with len(x) = numel(shape), the chain
\* from_data(x, shape, CPU).to(GPU).to(CPU) yields a tensor, and the bytes of
\* its storage are the bytes of x; only a failed readback may end it early.
C12_RoundTripKeepsBytes ==
    Len(transfer.data) = numel(transfer.shape) =>
        /\ transfer.result # "Panic"
        /\ transfer.at = "CPU again" => transfer.bytes = cast_slice(transfer.data)

\* The supported operations: those execution_order and compile have arms for.
Supported == {"Const", "Binary", "Matmul"}

\* C21: a resolve during which the compile of some node failed does not return
\* Ok: when it returns Ok, every non-Const node of the execution order has its
\* CompiledOp in the batch.
C21_CompileErrorIsReturned ==
    (last.op = "resolve" /\ last.result = "Ok")
        => \A t \in Planned(execution_order(last.arg[1])) :
               \E i \in 1..Len(last.compiled) : last.compiled[i] = t

\* C22: a resolve on a graph that holds a node of an unsupported operation
\* returns an error value: it neither returns Ok nor aborts.
C22_UnsupportedOpIsTypedError ==
    (/\ last.op = "resolve"
     /\ last.arg # <<>>
     /\ \E t \in Reachable(last.arg[1]) : nodes[t].op \notin Supported)
        => last.result \notin {"Ok", "Panic"}

\* C23: a pipeline that get_or_create builds has its shader module compiled
\* checked if and only if RATCHET_CHECKED is set in the environment when the
\* call is made.
C23_CheckedIffVariableSet ==
    [][Len(pool'.resources) > Len(pool.resources)
          => (pool'.resources[Len(pool'.resources)].checked <=> pool.env # "unset")]_vars

\* C24: the memory of a raw buffer is freed exactly once, when its last handle
\* is dropped, and never while a handle is live; a buffer of size 0 holds the
\* null pointer and is neither allocated nor freed.
C24_FreedOnceWithLastHandle ==
    \A r \in 1..Len(heap.raws) :
        LET raw == heap.raws[r]
        IN  /\ raw.size = 0 => (raw.ptr = 0 /\ raw.allocs = 0 /\ raw.frees = 0)
            /\ raw.handles > 0 => (raw.frees = 0 /\ Intact(heap, r))
            /\ (raw.handles = 0 /\ raw.size > 0) => raw.frees = 1
            /\ \A q \in 1..Len(heap.raws) :
                   (q # r /\ raw.ptr # 0 /\ heap.raws[q].ptr = raw.ptr
                        /\ heap.raws[q].gen = raw.gen) => raw.frees + heap.raws[q].frees <= 1

\* C25: deep_clone of a tensor on the CPU returns a new Const tensor with a
\* fresh id, the view and device of the original and a buffer of the same
\* size and alignment, freshly allocated, whose bytes equal the original's;
\* the original and its buffer are as they were and share no memory with the
\* clone. Only an allocator without memory ends the call in a panic.
C25_DeepCloneCopiesBuffer ==
    [][heap'.last[1] = "deep_clone"
          => LET r == heap'.last[2]
                 new == Len(heap.raws) + 1
             IN  IF heap'.panicked
                 THEN /\ heap.raws[r].size > 0
                      /\ \A a \in Addrs : heap.mem[a].allocated
                 ELSE /\ Len(heap'.raws) = new
                      /\ heap'.raws[new].tensor =
                            TensorNew("Const", heap.raws[r].tensor.view, <<>>,
                                      heap.raws[r].tensor.device)
                      /\ heap'.raws[new].size = heap.raws[r].size
                      /\ heap'.raws[new].align = heap.raws[r].align
                      /\ heap'.raws[new].handles = 1
                      /\ as_bytes(heap', new) = as_bytes(heap, r)
                      /\ Len(as_bytes(heap', new)) = heap'.raws[new].size
                      /\ heap.raws[r].size > 0
                            => /\ heap'.raws[new].ptr \in Addrs
                               /\ ~heap.mem[heap'.raws[new].ptr].allocated
                               /\ Intact(heap', new)
                               /\ heap'.raws[new].ptr # heap.raws[r].ptr
                      /\ \A q \in 1..Len(heap.raws) :
                            /\ heap'.raws[q] = heap.raws[q]
                            /\ heap.raws[q].handles > 0
                                  => /\ as_bytes(heap', q) = as_bytes(heap, q)
                                     /\ Intact(heap', q)
                                     /\ heap.raws[q].size > 0
                                           => heap'.raws[new].ptr # heap.raws[q].ptr]_vars

\* C25's case: a buffer of 4 bytes was cloned while another buffer was live,
\* and the clone has memory of its own.
C25_Witness ==
    /\ heap.last[1] = "deep_clone" /\ ~heap.panicked
    /\ Len(heap.raws) = 3
    /\ heap.raws[3].size = 4
    /\ \A r \in 1..2 : heap.raws[r].handles > 0

\* C26: a resolve that has returned Ok has pushed the CompiledOp of every
\* non-Const node of the execution order, in that order, then submitted the
\* one batch, then polled the device for the index of that submission.
C26_OkAfterCompileSubmitPoll ==
    \A th \in Threads :
        (threads[th].pc = "done" /\ threads[th].result = "Ok")
            => LET order == threads[th].order
                   lazy == SelectSeq(order, LAMBDA t : nodes[t].op # "Const")
               IN  threads[th].events =
                       Compiled(lazy) \o <<<<"submit", SubmissionIndex>>,
                                           <<"poll", SubmissionIndex>>>>

\* The width the operation protocol chooses for a destination of n elements.
Width(n) == IF n % 4 = 0 THEN "Vec4" ELSE IF n % 2 = 0 THEN "Vec2" ELSE "Scalar"

\* C27: kernel_element(dst) of an IndexWrite is Vec4 when the element count of
\* dst is divisible by 4, else Vec2 when it is divisible by 2, else Scalar,
\* and kernel_key is the kernel's name with that width.
C27_KernelElementByDivisibility ==
    /\ opcall.method = "kernel_element"
          => opcall.result = Width(numel(opcall.dst.shape))
    /\ opcall.method = "kernel_key"
          => opcall.result = <<kernel_name, Width(numel(opcall.dst.shape))>>

\* C28: the metadata record of an IndexWrite carries, in its last lanes, the
\* strides of the view of dst, whether or not they are the row-major strides
\* of its shape.
C28_MetadataCarriesViewStrides ==
    (opcall.method = "write_metadata" /\ ~opcall.result.panic)
        => LET own == opcall.dst.strides
               pad == 4 - Len(own)
           IN  \A k \in 1..Len(own) : opcall.result.dst_strides[pad + k] = own[k]

\* C30: supports_inplace is true; storage_bind_group_layout returns the
\* binary_inplace layout for inplace = true and panics, returning neither a
\* layout nor an error value, for inplace = false.
C30_LayoutOnlyInPlace ==
    /\ opcall.method = "supports_inplace" => opcall.result = TRUE
    /\ opcall.method = "storage_bind_group_layout"
          => opcall.result = IF opcall.arg THEN "binary_inplace" ELSE "Panic"

\* C30's case: the layout was asked for with inplace = false.
C30_Witness ==
    opcall.method = "storage_bind_group_layout" /\ ~opcall.arg /\ opcall.result = "Panic"

\* C27, amended: kernel_element(dst) of an IndexWrite is Scalar whatever the
\* element count of dst, and its kernel_key is the kernel's name with Scalar.
C27_IndexWriteIsScalar ==
    /\ opcall.method = "kernel_element" => opcall.result = "Scalar"
    /\ opcall.method = "kernel_key" => opcall.result = <<kernel_name, "Scalar">>

\* C27's case: the element was asked for a destination of 4 elements.
C27_Witness ==
    opcall.method = "kernel_element" /\ numel(opcall.dst.shape) % 4 = 0

\* C29: every IndexWrite node that index_write has built has a write_start of
\* the rank of dst and of at most 4 entries, and its src, placed at
\* write_start, lies inside dst.
C29_ConstructedWritesFit ==
    \A t \in Ids :
        nodes[t].op = "IndexWrite"
            => /\ Len(nodes[t].attrs) <= 4
               /\ Fits(nodes[t].srcs[1], nodes[t].srcs[2], nodes[t].attrs)

\* C31: a resolve that returns an error leaves every node's storage slot as it
\* was before the call.
C31_ErrorLeavesStorageUnchanged ==
    [][(last'.op = "resolve" /\ last'.result \notin {"Ok", "Panic"})
          => storage' = storage]_vars

\* The kind of storage that belongs to a device.
KindOf(device) == IF is_gpu(device) THEN "GPU" ELSE "CPU"

C33_DispatchWithinLimit ==
    dispatch.wgc # <<>>
        => \A k \in 1..Len(dispatch.wgc) : dispatch.wgc[k] <= MAX_WGS_PER_DIM

====
